---- MODULE Spec2Model ----
(***************************************************************************)
(* A model of snap.py: the document fetcher (fetch_next_data), the         *)
(* collection extractor (extract_media_urls), the concurrent downloader    *)
(* (download_media_to_dir under download_and_collect_sync) and the archive *)
(* builder (make_zip_from_files).                                          *)
(*                                                                         *)
(* JSON values are tagged records of one shape, [tag, v, items]:           *)
(*   a string        [tag |-> "str",  v |-> s ]                            *)
(*   null / None     [tag |-> "null"]                                      *)
(*   a mapping       [tag |-> "dict", items |-> << <<key, value>>, ... >>] *)
(*   a sequence      [tag |-> "list", items |-> << value, ... >>]          *)
(* A mapping keeps its items in document order, as a Python dict does.     *)
(***************************************************************************)
EXTENDS Integers, Sequences, FiniteSets, TLC

VARIABLES
    doc,        \* extractor: the parsed document handed to extract_media_urls
    media,      \* extractor: the returned map title -> sequence of URLs
    epc,        \* extractor: "call" before the call, "done" after it
    fstatus,    \* fetcher: the status of the response
    fbody,      \* fetcher: the body of the response
    fresult,    \* fetcher: what fetch_next_data returned
    fpc,        \* fetcher: "call", "done" or "raised"
    nurl,       \* file naming: the path of the URL, a sequence of characters
    nct,        \* file naming: the Content-Type header of the response
    nfile,      \* file naming: the filename download_media_to_dir writes to
    npc,        \* file naming: "call" or "done"
    zfiles,     \* archive: the list of paths handed to make_zip_from_files
    zfs,        \* archive: the content of each path on disk
    zarchive,   \* archive: the entries of the written archive, in order
    zpc,        \* archive: "call" or "done"
    durls,      \* download: the batch of URLs handed to download_and_collect_sync
    dpc,        \* download: where each task of the batch stands
    dstat,      \* download: how each task ended ("pending" until then)
    doff,       \* download: the file offset of each task's open file
    disk,       \* download: the content of each file of the destination directory
    dret,       \* download: what each task returned
    dfinished,  \* download: the tasks in the order they completed
    dbatch,     \* download: "running", "returned" or "raised"
    dfiles      \* download: the list download_and_collect_sync returned

evars == <<doc, media, epc>>
fvars == <<fstatus, fbody, fresult, fpc>>
nvars == <<nurl, nct, nfile, npc>>
zvars == <<zfiles, zfs, zarchive, zpc>>
dvars == <<durls, dpc, dstat, doff, disk, dret, dfinished, dbatch, dfiles>>
vars  == <<evars, fvars, nvars, zvars, dvars>>

---------------------------------------------------------------------------
(* JSON values *)

Str(s)   == [tag |-> "str",  v |-> s,  items |-> <<>>]
Null     == [tag |-> "null", v |-> "", items |-> <<>>]
Dict(kv) == [tag |-> "dict", v |-> "", items |-> kv]
List(xs) == [tag |-> "list", v |-> "", items |-> xs]

\* Python truthiness of a value: None, "", {} and [] are falsy.
Truthy(x) ==
    CASE x.tag = "str"  -> x.v # ""
      [] x.tag = "null" -> FALSE
      [] OTHER          -> Len(x.items) > 0

HasKey(d, k) == \E i \in 1..Len(d.items) : d.items[i][1] = k

\* dict.get(k, default)
Get(d, k, default) ==
    IF HasKey(d, k)
    THEN d.items[CHOOSE i \in 1..Len(d.items) : d.items[i][1] = k][2]
    ELSE default

\* Python's "a or b": a when a is truthy, else b.
PyOr(a, b) == IF Truthy(a) THEN a ELSE b

---------------------------------------------------------------------------
(* extract_media_urls *)

\* The title expression of recurse: storyTitle.value, then title, then
\* displayName, then the last key of the path, "unknown" for an empty path.
Title(obj, path) ==
    LET st    == PyOr(Get(obj, "storyTitle", Null), Dict(<<>>))
        last  == IF Len(path) > 0 THEN Str(path[Len(path)]) ELSE Str("unknown")
        t     == PyOr(PyOr(PyOr(Get(st, "value", Null), Get(obj, "title", Null)),
                           Get(obj, "displayName", Null)), last)
    IN  t.v

\* snap.get("snapUrls", {}).get("mediaUrl")
MediaUrl(snap) == Get(Get(snap, "snapUrls", Dict(<<>>)), "mediaUrl", Null)

RECURSIVE UrlsFrom(_, _)
UrlsFrom(xs, i) ==
    IF i > Len(xs) THEN <<>>
    ELSE (IF Truthy(MediaUrl(xs[i])) THEN <<MediaUrl(xs[i]).v>> ELSE <<>>)
         \o UrlsFrom(xs, i + 1)

\* a comprehension without its filter: one element per entry
UrlsUnfiltered(val) == [i \in 1..Len(val.items) |-> MediaUrl(val.items[i]).v]

\* the list comprehension over the entries of a snapList
Urls(val) == UrlsFrom(val.items, 1)

\* media[title] = urls: a later list replaces an earlier one
SetOverwrite(m, title, urls) ==
    [t \in DOMAIN m \cup {title} |-> IF t = title THEN urls ELSE m[t]]

\* media.setdefault(title, []).extend(urls)
SetDefaultExtend(m, title, urls) ==
    IF title \in DOMAIN m
    THEN [m EXCEPT ![title] = @ \o urls]
    ELSE m @@ (title :> urls)

RECURSIVE Recurse(_, _, _), WalkItems(_, _, _, _), WalkList(_, _, _, _)
Recurse(obj, path, m) ==
    CASE obj.tag = "dict" -> WalkItems(obj, 1, path, m)
      [] obj.tag = "list" -> WalkList(obj.items, 1, path, m)
      [] OTHER            -> m

WalkItems(obj, i, path, m) ==
    IF i > Len(obj.items) THEN m
    ELSE LET key == obj.items[i][1]
             val == obj.items[i][2]
             m2  == IF key = "snapList" /\ val.tag = "list"
                    THEN SetDefaultExtend(m, Title(obj, path), Urls(val))
                    ELSE Recurse(val, Append(path, key), m)
         IN  WalkItems(obj, i + 1, path, m2)

WalkList(xs, i, path, m) ==
    IF i > Len(xs) THEN m
    ELSE WalkList(xs, i + 1, path, Recurse(xs[i], path, m))

EmptyMap == [t \in {} |-> <<>>]

page_props(data) == Get(Get(data, "props", Dict(<<>>)), "pageProps", Dict(<<>>))

extract_media_urls(data) == Recurse(page_props(data), <<>>, EmptyMap)

---------------------------------------------------------------------------
(* The documents the extractor is run on *)

MaxEntries == 2     \* entries of the first collection's snapList

EntryUrl(u) == Dict(<< <<"snapUrls", Dict(<< <<"mediaUrl", Str(u)>> >>)>> >>)

\* an entry with a media URL, with another one, with an empty one, with none
Entries == {EntryUrl("u1"), EntryUrl("u2"), EntryUrl(""), Dict(<<>>)}

SeqsUpTo(S, n) == UNION {[1..k -> S] : k \in 0..n}

\* the title fields of a collection node, in document order
Headers ==
    { <<>>,
      << <<"storyTitle", Dict(<< <<"value", Str("S")>> >>)>>, <<"title", Str("T")>> >>,
      << <<"title", Str("T")>> >>,
      << <<"displayName", Str("D")>> >>,
      << <<"title", Str("  ")>> >>,
      << <<"title", Str("")>>, <<"displayName", Str("")>> >>,
      << <<"storyTitle", Null>>, <<"title", Str("T")>> >>,
      << <<"storyTitle", Dict(<< <<"value", Str("")>> >>)>>, <<"displayName", Str("D")>> >> }

Headers2 ==
    { <<>>,
      << <<"title", Str("T")>> >>,
      << <<"storyTitle", Dict(<< <<"value", Str("S")>> >>)>>, <<"title", Str("T")>> >>,
      << <<"title", Str("  ")>> >> }

Coll(h, xs) == Dict(Append(h, <<"snapList", List(xs)>>))

Colls1 == {Coll(h, xs) : h \in Headers, xs \in SeqsUpTo(Entries, MaxEntries)}
Colls2 == {Coll(h, <<e>>) : h \in Headers2, e \in {EntryUrl("u2"), EntryUrl("")}}

KeyPairs == { <<"story", "highlights">>, <<"highlights", "story">>, <<"", "story">> }

Page(pp) == Dict(<< <<"props", Dict(<< <<"pageProps", pp>> >>)>> >>)

\* two collections under sibling keys of pageProps
DocSiblings(c1, c2, k) == Page(Dict(<< <<k[1], c1>>, <<k[2], c2>> >>))
\* two collections in one sequence under one key
DocInList(c1, c2, k) == Page(Dict(<< <<k[1], List(<<c1, c2>>)>> >>))
\* the second collection inside an entry of the first one's snapList
DocInEntry(c1, c2, k) ==
    LET n   == Len(c1.items)
        sl  == c1.items[n][2]
        sl2 == List(Append(sl.items, Dict(<< <<k[2], c2>> >>)))
    IN  Page(Dict(<< <<k[1], [c1 EXCEPT !.items[n] = <<"snapList", sl2>>]>> >>))
\* the second collection outside props.pageProps
DocOutside(c1, c2, k) ==
    Dict(<< <<"props", Dict(<< <<"pageProps", Dict(<< <<k[1], c1>> >>)>> >>)>>,
            <<k[2], c2>> >>)
\* the first collection is pageProps itself, the second under a key after it
DocDirect(c1, c2, k) == Page(Dict(Append(c1.items, <<k[2], c2>>)))

Shapes == {"siblings", "inList", "inEntry", "outside", "direct"}

MkDoc(shape, c1, c2, k) ==
    CASE shape = "siblings" -> DocSiblings(c1, c2, k)
      [] shape = "inList"   -> DocInList(c1, c2, k)
      [] shape = "inEntry"  -> DocInEntry(c1, c2, k)
      [] shape = "outside"  -> DocOutside(c1, c2, k)
      [] shape = "direct"   -> DocDirect(c1, c2, k)

---------------------------------------------------------------------------
(* fetch_next_data *)

NotFound == 404

\* The response body as BeautifulSoup and json.loads see it: whether an
\* element with id "__NEXT_DATA__" is found, whether it has a string, and
\* whether that string parses as JSON (and to what).
BodyNoElement   == [el |-> FALSE, string |-> FALSE, json |-> FALSE, payload |-> Null]
BodyNoString    == [el |-> TRUE,  string |-> FALSE, json |-> FALSE, payload |-> Null]
BodyBadJson     == [el |-> TRUE,  string |-> TRUE,  json |-> FALSE, payload |-> Null]
BodyJson(d)     == [el |-> TRUE,  string |-> TRUE,  json |-> TRUE,  payload |-> d]

\* None
Absent == Null

\* the body of fetch_next_data after session.get has answered
fetch_next_data(status, body) ==
    IF status = NotFound THEN Absent
    ELSE IF ~body.el \/ ~body.string THEN Absent
    ELSE IF ~body.json THEN Absent          \* json.loads raises, caught
    ELSE body.payload

---------------------------------------------------------------------------
(* The filename of download_media_to_dir.  Strings are sequences of        *)
(* characters; a percent escape of a URL is one element ("%2F").           *)

RECURSIVE LastIndexOf(_, _, _)
\* the greatest i <= n with s[i] = c, or 0
LastIndexOf(s, c, n) ==
    IF n = 0 THEN 0 ELSE IF s[n] = c THEN n ELSE LastIndexOf(s, c, n - 1)

\* os.path.basename: what follows the last "/"
Basename(path) == SubSeq(path, LastIndexOf(path, "/", Len(path)) + 1, Len(path))

\* urllib.parse.unquote on the escapes that occur in the model
UnquoteChar(c) ==
    CASE c = "%2F" -> "/"
      [] c = "%3A" -> ":"
      [] c = "%20" -> " "
      [] OTHER     -> c

Unquote(s) == [i \in 1..Len(s) |-> UnquoteChar(s[i])]

\* the character class of re.sub(r'[<>:"/\\|?*]', "", base)
UnsafeChars == {"<", ">", ":", "\"", "/", "\\", "|", "?", "*"}

Sanitize(s) == SelectSeq(s, LAMBDA c : c \notin UnsafeChars)

\* base = re.sub(..., unquote(os.path.basename(parsed.path)))
SafeBase(path) == Sanitize(Unquote(Basename(path)))

UpperCase == <<"A", "B", "C", "D", "E", "F", "G", "H", "I", "J", "K", "L", "M", "N", "O", "P", "Q", "R", "S", "T", "U", "V", "W", "X", "Y", "Z">>
LowerCase == <<"a", "b", "c", "d", "e", "f", "g", "h", "i", "j", "k", "l", "m", "n", "o", "p", "q", "r", "s", "t", "u", "v", "w", "x", "y", "z">>

LowerChar(c) ==
    IF \E i \in 1..Len(UpperCase) : UpperCase[i] = c
    THEN LowerCase[CHOOSE i \in 1..Len(UpperCase) : UpperCase[i] = c]
    ELSE c

\* str.lower()
Lower(s) == [i \in 1..Len(s) |-> LowerChar(s[i])]

\* str.endswith
EndsWith(s, suf) ==
    Len(suf) <= Len(s) /\ SubSeq(s, Len(s) - Len(suf) + 1, Len(s)) = suf

\* Python's "sub in s" on strings
Contains(s, sub) ==
    \E i \in 0..(Len(s) - Len(sub)) : SubSeq(s, i + 1, i + Len(sub)) = sub

\* ext = ".jpg" if "image" in ct else ".mp4" if "video" in ct else ""
ExtOf(ct) ==
    IF Contains(ct, <<"i", "m", "a", "g", "e">>) THEN <<".", "j", "p", "g">>
    ELSE IF Contains(ct, <<"v", "i", "d", "e", "o">>) THEN <<".", "m", "p", "4">>
    ELSE <<>>

\* filename = base, with ext appended unless it already ends with ext
FileName(base, ct) ==
    LET ext == ExtOf(ct)
    IN  IF Len(ext) > 0 /\ ~EndsWith(Lower(base), ext) THEN base \o ext ELSE base

\* the extensions display_media_grid knows as images and as videos
ImageExts == {<<".", "j", "p", "g">>, <<".", "j", "p", "e", "g">>, <<".", "p", "n", "g">>, <<".", "w", "e", "b", "p">>}
VideoExts == {<<".", "m", "p", "4">>, <<".", "m", "o", "v">>, <<".", "w", "e", "b", "m">>}

---------------------------------------------------------------------------
(* make_zip_from_files.  A path is [dir, name]; the archive is the sequence *)
(* of its entries [name, data] in the order they were written.             *)

Unreadable == "unreadable"      \* zf.write(f, ...) raises for this path

PathBasename(f) == f.name

\* a ZipWrite that keeps the first entry of a name and skips later ones
ZipWriteKeepFirst(archive, f, fs) ==
    IF fs[f] = Unreadable \/ \E i \in 1..Len(archive) : archive[i].name = PathBasename(f)
    THEN archive
    ELSE Append(archive, [name |-> PathBasename(f), data |-> fs[f]])

\* one turn of the loop: zf.write(f, os.path.basename(f)), an error skipped
ZipWrite(archive, f, fs) ==
    IF fs[f] = Unreadable THEN archive
    ELSE Append(archive, [name |-> PathBasename(f), data |-> fs[f]])

RECURSIVE ZipLoop(_, _, _, _)
ZipLoop(files, i, fs, archive) ==
    IF i > Len(files) THEN archive
    ELSE ZipLoop(files, i + 1, fs, ZipWrite(archive, files[i], fs))

\* the return value: None for an empty list, else the path of an archive
\* (made) with the entries written to it
NoArchive == [made |-> FALSE, entries |-> <<>>]

make_zip_from_files(files, fs) ==
    IF Len(files) = 0 THEN NoArchive
    ELSE [made |-> TRUE, entries |-> ZipLoop(files, 1, fs, <<>>)]

---------------------------------------------------------------------------
(* Inputs of the fetcher, of the file naming and of the archive builder *)

Statuses == {200, 301, 302, 400, 403, 404, 429, 500, 502, 503}

Payloads == { Page(Dict(<<>>)),
              Page(Dict(<< <<"story", Coll(<<>>, <<EntryUrl("u1")>>)>> >>)),
              Dict(<<>>),
              Null }

Bodies == {BodyNoElement, BodyNoString, BodyBadJson} \cup {BodyJson(d) : d \in Payloads}

NamePaths ==
    { <<"/", "a">>, <<"/", "a", ".", "j", "p", "g">>, <<"/", "a", ".", "J", "P", "G">>, <<"/", "a", ".", "j", "p", "e", "g">>, <<"/", "a", ".", "p", "n", "g">>, <<"/", "a", ".", "w", "e", "b", "p">>,
      <<"/", "a", ".", "m", "p", "4">>, <<"/", "a", ".", "m", "o", "v">>, <<"/", "a", ".", "w", "e", "b", "m">>, <<"/", "d", "/", "a", ".", "P", "N", "G">>, <<"/", "d", "/", "a", "%3A", "b", ".", "j", "p", "g">>,
      <<"/", "a", "%2F", "b">>, <<"/", "d", "/">> }

ContentTypes ==
    { <<"i", "m", "a", "g", "e", "/", "j", "p", "e", "g">>, <<"i", "m", "a", "g", "e", "/", "p", "n", "g">>, <<"v", "i", "d", "e", "o", "/", "m", "p", "4">>, <<"v", "i", "d", "e", "o", "/", "w", "e", "b", "m">>,
      <<"t", "e", "x", "t", "/", "h", "t", "m", "l">>, <<"a", "p", "p", "l", "i", "c", "a", "t", "i", "o", "n", "/", "o", "c", "t", "e", "t", "-", "s", "t", "r", "e", "a", "m">>, <<>> }

MaxFiles == 2       \* paths in the list handed to make_zip_from_files

ZPaths == { [dir |-> "a", name |-> "x"], [dir |-> "b", name |-> "x"],
            [dir |-> "a", name |-> "y"] }

Contents == {"c1", "c2", Unreadable}

---------------------------------------------------------------------------
(* The state machines: one call of one operation each *)

IdleExtract == doc = Null /\ media = EmptyMap /\ epc = "idle"
IdleFetch   == fstatus = 0 /\ fbody = BodyNoElement /\ fresult = Absent /\ fpc = "idle"
IdleName    == nurl = <<>> /\ nct = <<>> /\ nfile = <<>> /\ npc = "idle"
IdleZip     == zfiles = <<>> /\ zfs = <<>> /\ zarchive = NoArchive /\ zpc = "idle"
IdleDownload ==
    /\ durls = <<>> /\ dpc = <<>> /\ dstat = <<>> /\ doff = <<>> /\ disk = <<>>
    /\ dret = <<>> /\ dfinished = <<>> /\ dbatch = "idle" /\ dfiles = <<>>

InitExtract ==
    /\ \E shape \in Shapes, c1 \in Colls1, c2 \in Colls2, k \in KeyPairs :
          doc = MkDoc(shape, c1, c2, k)
    /\ media = EmptyMap
    /\ epc = "call"
    /\ IdleFetch /\ IdleName /\ IdleZip /\ IdleDownload

Extract ==
    /\ epc = "call"
    /\ media' = extract_media_urls(doc)
    /\ epc' = "done"
    /\ UNCHANGED <<doc, fvars, nvars, zvars, dvars>>

NextExtract == Extract

SpecExtract == InitExtract /\ [][NextExtract]_vars

InitFetch ==
    /\ fstatus \in Statuses
    /\ fbody \in Bodies
    /\ fresult = Absent
    /\ fpc = "call"
    /\ IdleExtract /\ IdleName /\ IdleZip /\ IdleDownload

Fetch ==
    /\ fpc = "call"
    /\ fresult' = fetch_next_data(fstatus, fbody)
    /\ fpc' = "done"
    /\ UNCHANGED <<fstatus, fbody, evars, nvars, zvars, dvars>>

NextFetch == Fetch

SpecFetch == InitFetch /\ [][NextFetch]_vars

InitName ==
    /\ nurl \in NamePaths
    /\ nct \in ContentTypes
    /\ nfile = <<>>
    /\ npc = "call"
    /\ IdleExtract /\ IdleFetch /\ IdleZip /\ IdleDownload

DeriveName ==
    /\ npc = "call"
    /\ nfile' = FileName(SafeBase(nurl), nct)
    /\ npc' = "done"
    /\ UNCHANGED <<nurl, nct, evars, fvars, zvars, dvars>>

NextName == DeriveName

SpecName == InitName /\ [][NextName]_vars

InitZip ==
    /\ zfiles \in SeqsUpTo(ZPaths, MaxFiles)
    /\ zfs \in [ZPaths -> Contents]
    /\ zarchive = NoArchive
    /\ zpc = "call"
    /\ IdleExtract /\ IdleFetch /\ IdleName /\ IdleDownload

MakeZip ==
    /\ zpc = "call"
    /\ zarchive' = make_zip_from_files(zfiles, zfs)
    /\ zpc' = "done"
    /\ UNCHANGED <<zfiles, zfs, evars, fvars, nvars, dvars>>

NextZip == MakeZip

SpecZip == InitZip /\ [][NextZip]_vars

---------------------------------------------------------------------------
(* download_and_collect_sync: one task of download_media_to_dir per URL,   *)
(* run together by asyncio.gather.  A task runs from one await to the      *)
(* next without interruption; the awaits are session.get, aiofiles.open,   *)
(* and each read and write of a chunk.                                     *)

MaxUrls   == 2      \* URLs in a batch
MaxChunks == 2      \* chunks of the longest response body

\* The URLs of the model with what their server answers on success: two of
\* them have the same basename on different hosts.
UrlXA == [id |-> "x/a", path |-> <<"/", "a", ".", "j", "p", "g">>,   ct |-> <<"i", "m", "a", "g", "e", "/", "j", "p", "e", "g">>, len |-> MaxChunks]
UrlYA == [id |-> "y/a", path |-> <<"/", "m", "/", "a", ".", "j", "p", "g">>, ct |-> <<"i", "m", "a", "g", "e", "/", "j", "p", "e", "g">>, len |-> 1]
UrlXB == [id |-> "x/b", path |-> <<"/", "b">>,       ct |-> <<"v", "i", "d", "e", "o", "/", "m", "p", "4">>,  len |-> 1]

DUrls == {UrlXA, UrlYA, UrlXB}

\* the body of a successful response, chunk by chunk
Body(u) == [k \in 1..u.len |-> <<u.id, k>>]

\* path = os.path.join(dest_dir, filename): dest_dir is one per batch, so the
\* filename stands for the path
PathOf(u) == FileName(SafeBase(u.path), u.ct)

Tasks == 1..Len(durls)

NoneRet      == [ok |-> FALSE, path |-> <<>>]
PathRet(p)   == [ok |-> TRUE,  path |-> p]

Hole == <<"hole", 0>>

\* f.write(chunk) at the file offset off of the writing descriptor: beyond
\* the end of the file the gap reads as zeros
RECURSIVE Pad(_, _)
Pad(content, n) == IF Len(content) >= n THEN content ELSE Pad(Append(content, Hole), n)

WriteAt(content, off, chunk) ==
    IF off < Len(content) THEN [content EXCEPT ![off + 1] = chunk]
    ELSE Append(Pad(content, off), chunk)

\* a gather that hands the results over in the order the tasks completed
GatherByCompletion == [k \in 1..Len(dfinished) |-> dret[dfinished[k]]]

\* results = await asyncio.gather(*tasks): one result per task, in the order
\* of the tasks
GatherResults == [i \in Tasks |-> dret[i]]

\* for r in results: if r: files.append(r)
RECURSIVE CollectFrom(_, _)
CollectFrom(results, i) ==
    IF i > Len(results) THEN <<>>
    ELSE (IF results[i].ok THEN <<results[i].path>> ELSE <<>>)
         \o CollectFrom(results, i + 1)

\* a collection that keeps each path once
CollectDistinct(results) ==
    LET all == CollectFrom(results, 1)
        firsts == {k \in 1..Len(all) : \A j \in 1..(k - 1) : all[j] # all[k]}
        RECURSIVE Keep(_)
        Keep(k) == IF k > Len(all) THEN <<>>
                   ELSE (IF k \in firsts THEN <<all[k]>> ELSE <<>>) \o Keep(k + 1)
    IN  Keep(1)

CollectFiles(results) == CollectFrom(results, 1)

InitDownload ==
    /\ durls \in SeqsUpTo(DUrls, MaxUrls) \ {<<>>}
    /\ dpc = [i \in Tasks |-> "init"]
    /\ dstat = [i \in Tasks |-> "pending"]
    /\ doff = [i \in Tasks |-> 0]
    /\ disk = [n \in {} |-> <<>>]
    /\ dret = [i \in Tasks |-> NoneRet]
    /\ dfinished = <<>>
    /\ dbatch = "running"
    /\ dfiles = <<>>
    /\ IdleExtract /\ IdleFetch /\ IdleName /\ IdleZip

Others == <<evars, fvars, nvars, zvars>>

\* a task ends with a return value
Return(i, how, r) ==
    /\ dpc' = [dpc EXCEPT ![i] = "done"]
    /\ dstat' = [dstat EXCEPT ![i] = how]
    /\ dret' = [dret EXCEPT ![i] = r]
    /\ dfinished' = Append(dfinished, i)

\* the task runs to its first await: session.get(url)
StartTask(i) ==
    /\ dbatch = "running" /\ dpc[i] = "init"
    /\ dpc' = [dpc EXCEPT ![i] = "get"]
    /\ UNCHANGED <<durls, dstat, doff, disk, dret, dfinished, dbatch, dfiles, Others>>

\* resp.status != 200: logged, return None
RespondNon200(i) ==
    /\ dbatch = "running" /\ dpc[i] = "get"
    /\ Return(i, "non200", NoneRet)
    /\ UNCHANGED <<durls, doff, disk, dbatch, dfiles, Others>>

\* session.get raises (no connection, a timeout): nothing in the task
\* catches it, gather passes it on to _dl, asyncio.run raises it to the
\* caller and cancels the tasks that are still running
RespondError(i) ==
    /\ dbatch = "running" /\ dpc[i] = "get"
    /\ dpc' = [j \in Tasks |-> IF j = i THEN "failed"
                               ELSE IF dpc[j] = "done" THEN "done" ELSE "cancelled"]
    /\ dstat' = [dstat EXCEPT ![i] = "geterr"]
    /\ dbatch' = "raised"
    /\ UNCHANGED <<durls, doff, disk, dret, dfinished, dfiles, Others>>

\* status 200: the filename is derived, the task awaits aiofiles.open
Respond200(i) ==
    /\ dbatch = "running" /\ dpc[i] = "get"
    /\ dpc' = [dpc EXCEPT ![i] = "open"]
    /\ UNCHANGED <<durls, dstat, doff, disk, dret, dfinished, dbatch, dfiles, Others>>

\* aiofiles.open(path, "wb"): the file is created or truncated, the
\* descriptor's offset is 0
OpenFile(i) ==
    /\ dbatch = "running" /\ dpc[i] = "open"
    /\ LET p == PathOf(durls[i])
       IN  disk' = [n \in DOMAIN disk \cup {p} |-> IF n = p THEN <<>> ELSE disk[n]]
    /\ doff' = [doff EXCEPT ![i] = 0]
    /\ dpc' = [dpc EXCEPT ![i] = "write"]
    /\ UNCHANGED <<durls, dstat, dret, dfinished, dbatch, dfiles, Others>>

\* aiofiles.open raises: caught, logged, return None
OpenFails(i) ==
    /\ dbatch = "running" /\ dpc[i] = "open"
    /\ Return(i, "writeerr", NoneRet)
    /\ UNCHANGED <<durls, doff, disk, dbatch, dfiles, Others>>

\* one turn of the loop: the next chunk is read and written
WriteChunk(i) ==
    /\ dbatch = "running" /\ dpc[i] = "write"
    /\ doff[i] < durls[i].len
    /\ LET p == PathOf(durls[i])
       IN  disk' = [disk EXCEPT ![p] = WriteAt(@, doff[i], Body(durls[i])[doff[i] + 1])]
    /\ doff' = [doff EXCEPT ![i] = @ + 1]
    /\ UNCHANGED <<durls, dpc, dstat, dret, dfinished, dbatch, dfiles, Others>>

\* reading or writing a chunk raises: caught, logged, return None
WriteFails(i) ==
    /\ dbatch = "running" /\ dpc[i] = "write"
    /\ doff[i] < durls[i].len
    /\ Return(i, "writeerr", NoneRet)
    /\ UNCHANGED <<durls, doff, disk, dbatch, dfiles, Others>>

\* the body is exhausted: the file is closed, return path
Finish(i) ==
    /\ dbatch = "running" /\ dpc[i] = "write"
    /\ doff[i] = durls[i].len
    /\ Return(i, "ok", PathRet(PathOf(durls[i])))
    /\ UNCHANGED <<durls, doff, disk, dbatch, dfiles, Others>>

\* gather has every result: the truthy ones are collected and returned
Gather ==
    /\ dbatch = "running"
    /\ \A i \in Tasks : dpc[i] = "done"
    /\ dfiles' = CollectFiles(GatherResults)
    /\ dbatch' = "returned"
    /\ UNCHANGED <<durls, dpc, dstat, doff, disk, dret, dfinished, Others>>

NextDownload ==
    \/ \E i \in Tasks : StartTask(i)
    \/ \E i \in Tasks : RespondNon200(i)
    \/ \E i \in Tasks : RespondError(i)
    \/ \E i \in Tasks : Respond200(i)
    \/ \E i \in Tasks : OpenFile(i)
    \/ \E i \in Tasks : OpenFails(i)
    \/ \E i \in Tasks : WriteChunk(i)
    \/ \E i \in Tasks : WriteFails(i)
    \/ \E i \in Tasks : Finish(i)
    \/ Gather

SpecDownload == InitDownload /\ [][NextDownload]_vars

---------------------------------------------------------------------------
(* What the claims about the extractor speak of: the media-entry lists of  *)
(* a document, each with its resolved title and its media URLs.            *)

\* the non-empty snapUrls.mediaUrl of an entry, if it has one
HasMediaUrl(e) ==
    \E i \in 1..Len(e.items) :
        /\ e.items[i][1] = "snapUrls"
        /\ \E j \in 1..Len(e.items[i][2].items) :
              /\ e.items[i][2].items[j][1] = "mediaUrl"
              /\ e.items[i][2].items[j][2].tag = "str"
              /\ e.items[i][2].items[j][2].v # ""

TheMediaUrl(e) ==
    LET su == e.items[CHOOSE i \in 1..Len(e.items) : e.items[i][1] = "snapUrls"][2]
    IN  su.items[CHOOSE j \in 1..Len(su.items) : su.items[j][1] = "mediaUrl"][2].v

\* the media URLs of the entries of a list that have one, in list order
EntryUrls(xs) ==
    LET with == SelectSeq(xs, HasMediaUrl)
    IN  [i \in 1..Len(with) |-> TheMediaUrl(with[i])]

\* Every "snapList" key with a sequence value below obj, in document order.
\* reached: the list lies outside the entries of every other such list.
RECURSIVE ListsBelow(_, _, _), ListsItems(_, _, _, _), ListsSeq(_, _, _, _)
ListsBelow(obj, path, reached) ==
    CASE obj.tag = "dict" -> ListsItems(obj, 1, path, reached)
      [] obj.tag = "list" -> ListsSeq(obj.items, 1, path, reached)
      [] OTHER            -> <<>>

ListsItems(obj, i, path, reached) ==
    IF i > Len(obj.items) THEN <<>>
    ELSE LET key == obj.items[i][1]
             val == obj.items[i][2]
             here == IF key = "snapList" /\ val.tag = "list"
                     THEN <<[title |-> Title(obj, path), urls |-> EntryUrls(val.items),
                             reached |-> reached]>>
                          \o ListsSeq(val.items, 1, Append(path, key), FALSE)
                     ELSE ListsBelow(val, Append(path, key), reached)
         IN  here \o ListsItems(obj, i + 1, path, reached)

ListsSeq(xs, i, path, reached) ==
    IF i > Len(xs) THEN <<>>
    ELSE ListsBelow(xs[i], path, reached) \o ListsSeq(xs, i + 1, path, reached)

\* The lists of the root outside props.pageProps (titles resolved against the root).
RootOutside(data) ==
    LET rest == SelectSeq(data.items, LAMBDA kv : kv[1] # "props")
        r    == ListsBelow(Dict(rest), <<>>, FALSE)
    IN  [i \in 1..Len(r) |-> [r[i] EXCEPT !.reached = FALSE]]

\* All media-entry lists of the document, those under props.pageProps first.
AllLists(data) == ListsBelow(page_props(data), <<>>, TRUE) \o RootOutside(data)

ReachedLists(data) == SelectSeq(AllLists(data), LAMBDA l : l.reached)

RECURSIVE ConcatUrls(_, _, _)
ConcatUrls(ls, t, i) ==
    IF i > Len(ls) THEN <<>>
    ELSE (IF ls[i].title = t THEN ls[i].urls ELSE <<>>) \o ConcatUrls(ls, t, i + 1)

TitlesOf(ls) == {ls[i].title : i \in 1..Len(ls)}

---------------------------------------------------------------------------
(* Claims about extract_media_urls, checked under SpecExtract *)

BlankStrings == {"", " ", "  "}

C5_AsStated == epc = "done" => \A t \in DOMAIN media : t \notin BlankStrings

---------------------------------------------------------------------------
(* Claims about fetch_next_data, checked under SpecFetch *)

SuccessStatuses == 200..299

\* C6 (as stated): fetch_next_data returns None for every response whose
\* status is not a success status, whatever the body holds.
C6_AsStated ==
    (fpc = "done" /\ fstatus \notin SuccessStatuses) => fresult = Absent

---------------------------------------------------------------------------
(* Claims about the filename, checked under SpecName *)

HasMediaExt(base) == \E e \in ImageExts \cup VideoExts : EndsWith(Lower(base), e)

IsPrefix(p, s) == Len(p) <= Len(s) /\ SubSeq(s, 1, Len(p)) = p

\* the extension the claim derives from a content type
ClaimedExt(ct) ==
    IF IsPrefix(<<"i", "m", "a", "g", "e", "/">>, ct) THEN <<".", "j", "p", "g">>
    ELSE IF IsPrefix(<<"v", "i", "d", "e", "o", "/">>, ct) THEN <<".", "m", "p", "4">>
    ELSE <<>>

\* C7 (as stated): the written filename is the sanitized URL basename; a
\* basename that ends in a media extension is kept unchanged for any
\* content type, and a basename without one gets the image extension for
\* image/*, the video extension for video/* and nothing otherwise.
C7_AsStated ==
    npc = "done" =>
        LET base == SafeBase(nurl)
        IN  IF HasMediaExt(base) THEN nfile = base
            ELSE nfile = base \o ClaimedExt(nct)

---------------------------------------------------------------------------
(* Claims about make_zip_from_files, checked under SpecZip *)

\* extracting the entry of a name: the archive's directory maps a name to
\* the entry written last under it
ZipRead(entries, name) ==
    LET idx == {i \in 1..Len(entries) : entries[i].name = name}
    IN  IF idx = {} THEN "no entry"
        ELSE entries[CHOOSE i \in idx : \A j \in idx : j <= i].data

Added(i) == zfs[zfiles[i]] # Unreadable

\* C8 (as stated): for every path P of the list that was added without
\* error, the entry named basename(P) has the content of P.
C8_AsStated ==
    (zpc = "done" /\ zarchive.made) =>
        \A i \in 1..Len(zfiles) :
            Added(i) => ZipRead(zarchive.entries, PathBasename(zfiles[i])) = zfs[zfiles[i]]

\* C8 (amended): for every path P of the list that was added without error
\* and after which no path with the same base name was added without
\* error, the entry named basename(P) has the content of P.
C8_RoundTripLast ==
    (zpc = "done" /\ zarchive.made) =>
        \A i \in 1..Len(zfiles) :
            (/\ Added(i)
             /\ \A j \in (i + 1)..Len(zfiles) :
                    PathBasename(zfiles[j]) = PathBasename(zfiles[i]) => ~Added(j))
            => ZipRead(zarchive.entries, PathBasename(zfiles[i])) = zfs[zfiles[i]]

\* two paths with one base name and different contents were both added,
\* and the entry holds the content of the second
C8_Witness ==
    /\ zpc = "done" /\ zarchive.made
    /\ Len(zfiles) = 2
    /\ zfiles[1] # zfiles[2]
    /\ PathBasename(zfiles[1]) = PathBasename(zfiles[2])
    /\ Added(1) /\ Added(2)
    /\ zfs[zfiles[1]] # zfs[zfiles[2]]
    /\ ZipRead(zarchive.entries, PathBasename(zfiles[1])) = zfs[zfiles[2]]

---------------------------------------------------------------------------
(* Claims about download_and_collect_sync, checked under SpecDownload *)

OkTasks == {i \in Tasks : dstat[i] = "ok"}

\* C1 (as stated): the failure of one item (a non-200 response, an error
\* raised by its GET request, an error while writing its file) never
\* aborts the batch: the call completes normally and returns the path of
\* every other URL that was fetched and written.
C1_AsStated ==
    /\ dbatch # "raised"
    /\ dbatch = "returned" =>
          \A i \in OkTasks : \E k \in 1..Len(dfiles) : dfiles[k] = PathOf(durls[i])

\* C2: for a batch of K URLs of which exactly M get a non-200 status and
\* the other K-M are fetched and written without error, the returned list
\* has exactly K-M entries, whatever the interleaving of the tasks.
C2_ExactCount ==
    (dbatch = "returned" /\ \A i \in Tasks : dstat[i] \in {"ok", "non200"}) =>
        Len(dfiles) = Len(durls) - Cardinality({i \in Tasks : dstat[i] = "non200"})

\* a batch of two with one non-200 response has returned the other's file,
\* the failing task having completed while the other one was writing
C2_Witness ==
    /\ dbatch = "returned"
    /\ Len(durls) = 2
    /\ dstat[1] = "non200" /\ dstat[2] = "ok"
    /\ Len(dfiles) = 1
    /\ dfinished = <<1, 2>>
    /\ durls[2].len > 1

\* C3 (as stated): when two URLs of a batch resolve to the same filename
\* and both downloads succeed, the file holds in the end the complete body
\* of exactly one of the responses (the one written later), never a
\* mixture of chunks of both.  The formula asks only that the file be the
\* complete body of one of the tasks that wrote it.
C3_AsStated ==
    dbatch = "returned" =>
        \A i \in OkTasks, j \in OkTasks :
            (i # j /\ PathOf(durls[i]) = PathOf(durls[j])) =>
                disk[PathOf(durls[i])] \in
                    {Body(durls[k]) : k \in {t \in OkTasks : PathOf(durls[t]) = PathOf(durls[i])}}

\* C10: the returned list keeps the order of the input URLs: the k-th path
\* returned is the path of the k-th URL, in input order, among those that
\* succeeded, whatever order the tasks completed in.
KthOk(k) == CHOOSE i \in OkTasks : Cardinality({j \in OkTasks : j < i}) = k - 1

C10_InputOrder ==
    dbatch = "returned" =>
        /\ Len(dfiles) = Cardinality(OkTasks)
        /\ \A k \in 1..Len(dfiles) : dfiles[k] = PathOf(durls[KthOk(k)])

\* two URLs with different filenames both succeeded, the second completed
\* first, and the first one's file is returned first
C10_Witness ==
    /\ dbatch = "returned"
    /\ Len(durls) = 2
    /\ OkTasks = {1, 2}
    /\ PathOf(durls[1]) # PathOf(durls[2])
    /\ dfinished = <<2, 1>>
    /\ dfiles = <<PathOf(durls[1]), PathOf(durls[2])>>

====
